---- MODULE Spec2Model ----
(***************************************************************************)
(* Model of the audio pipeline of the TTS front end:                       *)
(*   - the transcoder  (decode, decodeAudioData in src/App.tsx),           *)
(*   - the playback controller (stopPlayback, handleSynthesizeAndPlay and  *)
(*     the onended callback in src/App.tsx),                               *)
(*   - the upstream call (synthesizeSpeech in src/services/geminiService). *)
(*                                                                         *)
(* Representation.                                                         *)
(*   A JavaScript string is a sequence of one-character strings.           *)
(*   A Uint8Array is a sequence of naturals in 0..255.                     *)
(*   A float is the reduced fraction <<num, den>> (den a power of two);    *)
(*   NaN is <<0, 0>>.                                                      *)
(*   A value that may be absent (undefined, null) is << >> when absent and *)
(*   << v >> when present; a null reference to an object is 0.             *)
(*   A call that may throw returns [ok |-> TRUE, val |-> v] or             *)
(*   [ok |-> FALSE, name |-> n, message |-> m]; a message is a string kept *)
(*   as the sequence of the pieces it was concatenated from.               *)
(***************************************************************************)
EXTENDS Integers, Sequences, FiniteSets, TLC

None == << >>

Some(v) == << v >>

Return(v) == [ok |-> TRUE, val |-> v]

Throw(n, m) == [ok |-> FALSE, name |-> n, message |-> m]

(***************************************************************************)
(* window.atob: the forgiving-base64 decode of the HTML standard.          *)
(***************************************************************************)
Alphabet ==
  << "A","B","C","D","E","F","G","H","I","J","K","L","M","N","O","P",
     "Q","R","S","T","U","V","W","X","Y","Z","a","b","c","d","e","f",
     "g","h","i","j","k","l","m","n","o","p","q","r","s","t","u","v",
     "w","x","y","z","0","1","2","3","4","5","6","7","8","9","+","/" >>

Whitespace == {" "}

IsAlphabetChar(ch) == \E k \in 1..64 : Alphabet[k] = ch

\* the 6-bit value of an alphabet character
Sextet(ch) == (CHOOSE k \in 1..64 : Alphabet[k] = ch) - 1

StripWhitespace(str) == SelectSeq(str, LAMBDA ch : ch \notin Whitespace)

\* a length divisible by 4 loses one or two trailing "="
StripPadding(str) ==
  LET n == Len(str) IN
  IF n % 4 = 0 /\ n > 0 /\ str[n] = "="
    THEN IF str[n - 1] = "=" THEN SubSeq(str, 1, n - 2) ELSE SubSeq(str, 1, n - 1)
    ELSE str

\* the bytes held by a run of 2, 3 or 4 sextets (the 4 or 2 bits left over
\* by a short last group are discarded)
GroupBytes(g) ==
  LET a == Sextet(g[1])
      b == Sextet(g[2])
      c == IF Len(g) >= 3 THEN Sextet(g[3]) ELSE 0
      d == IF Len(g) >= 4 THEN Sextet(g[4]) ELSE 0
      b1 == a * 4 + (b \div 16)
      b2 == (b % 16) * 16 + (c \div 4)
      b3 == (c % 4) * 64 + d
  IN  IF Len(g) = 2 THEN << b1 >>
      ELSE IF Len(g) = 3 THEN << b1, b2 >>
      ELSE << b1, b2, b3 >>

RECURSIVE SextetsToBytes(_)
SextetsToBytes(str) ==
  IF Len(str) = 0 THEN << >>
  ELSE IF Len(str) <= 4 THEN GroupBytes(str)
  ELSE GroupBytes(SubSeq(str, 1, 4)) \o SextetsToBytes(SubSeq(str, 5, Len(str)))

\* atob: the binary string as the sequence of its character codes
atob(base64) ==
  LET s == StripPadding(StripWhitespace(base64)) IN
  IF Len(s) % 4 = 1 \/ \E k \in 1..Len(s) : ~IsAlphabetChar(s[k])
    THEN Throw("InvalidCharacterError", << "The string to be decoded is not correctly encoded." >>)
    ELSE Return(SextetsToBytes(s))

\* decode with a loop that stops one byte early: the last byte stays 0
decodeStopsEarly(base64) ==
  LET binaryString == atob(base64) IN
  IF ~binaryString.ok THEN binaryString
  ELSE LET len == Len(binaryString.val) IN
       Return([i \in 1..len |-> IF i < len THEN binaryString.val[i] ELSE 0])

\* decode: bytes[i] = binaryString.charCodeAt(i), for every i < binaryString.length
decode(base64) ==
  LET binaryString == atob(base64) IN
  IF ~binaryString.ok THEN binaryString
  ELSE LET len == Len(binaryString.val) IN
       Return([i \in 1..len |-> binaryString.val[i]])

(***************************************************************************)
(* decodeAudioData and the platform objects it uses.                       *)
(***************************************************************************)
\* the word read as unsigned (a Uint16Array view)
Int16ValueUnsigned(lo, hi) == lo + 256 * hi

\* the signed value of the 16-bit word whose low byte is lo and high byte is hi
Int16Value(lo, hi) ==
  LET u == lo + 256 * hi IN IF u >= 32768 THEN u - 65536 ELSE u

\* a view over the whole samples only, a torn last byte being left out
Int16ArrayTruncating(bytes) ==
  Return([k \in 1..(Len(bytes) \div 2) |-> bytes[2 * k - 1] + 256 * bytes[2 * k]])

\* new Int16Array(data.buffer): a view of the whole buffer in the platform's
\* (little-endian) byte order; a byte length that is no multiple of 2 is a RangeError
Int16Array(bytes) ==
  IF Len(bytes) % 2 # 0
    THEN Throw("RangeError", << "byte length of Int16Array should be a multiple of 2" >>)
    ELSE Return([k \in 1..(Len(bytes) \div 2) |-> Int16Value(bytes[2 * k - 1], bytes[2 * k])])

\* the JavaScript number num / den (den > 0), kept exact
Quotient(num, den) == [num |-> num, den |-> den]

\* i < q for an integer i and a quotient q
LessThan(i, q) == i * q.den < q.num

\* WebIDL conversion of a non-negative number to unsigned long: truncation
ToUnsignedLong(q) == q.num \div q.den

RECURSIVE Reduce(_, _)
Reduce(num, den) ==
  IF den > 1 /\ num % 2 = 0 THEN Reduce(num \div 2, den \div 2) ELSE << num, den >>

\* division by the largest sample instead of by 2^15
DivideBy32767(x) == IF x = None THEN << 0, 0 >> ELSE << x[1], 32767 >>

\* x / 32768.0 for an Int16Array element x, or for undefined (an index past the end)
DivideBy32768(x) == IF x = None THEN << 0, 0 >> ELSE Reduce(x[1], 32768)

\* typedArray[i] (0-based): undefined past the end
GetElement(arr, i) == IF i < Len(arr) THEN Some(arr[i + 1]) ELSE None

\* typedArray[i] = v (0-based): a write past the end is ignored
SetElement(arr, i, v) == IF i < Len(arr) THEN [arr EXCEPT ![i + 1] = v] ELSE arr

\* ctx.createBuffer(numberOfChannels, length, sampleRate): zero-filled channels.
\* Web Audio API: a NotSupportedError is thrown when an argument is negative, zero
\* or outside its nominal range (1 to 32 channels, at least one frame); the length,
\* an unsigned long, is the truncation of the number passed
createBuffer(numChannels, frameCount, sampleRate) ==
  LET length == ToUnsignedLong(frameCount) IN
  IF numChannels < 1 \/ numChannels > 32 \/ length < 1
    THEN Throw("NotSupportedError", << "The number of frames provided (0) is less than or equal to the minimum bound (0)." >>)
    ELSE Return([numberOfChannels |-> numChannels,
                 length |-> length,
                 sampleRate |-> sampleRate,
                 channels |-> [c \in 1..numChannels |-> [k \in 1..length |-> << 0, 1 >>]]])

\* the inner loop: for (let i = 0; i < frameCount; i++) channelData[i] = ...
RECURSIVE FillChannel(_, _, _, _, _, _)
FillChannel(channelData, dataInt16, frameCount, numChannels, channel, i) ==
  IF ~LessThan(i, frameCount) THEN channelData
  ELSE FillChannel(
         SetElement(channelData, i,
                    DivideBy32768(GetElement(dataInt16, i * numChannels + channel))),
         dataInt16, frameCount, numChannels, channel, i + 1)

\* the outer loop: for (let channel = 0; channel < numChannels; channel++)
RECURSIVE FillBuffer(_, _, _, _, _)
FillBuffer(buffer, dataInt16, frameCount, numChannels, channel) ==
  IF ~(channel < numChannels) THEN buffer
  ELSE FillBuffer(
         [buffer EXCEPT !.channels[channel + 1] =
            FillChannel(@, dataInt16, frameCount, numChannels, channel, 0)],
         dataInt16, frameCount, numChannels, channel + 1)

decodeAudioData(data, sampleRate, numChannels) ==
  LET dataInt16 == Int16Array(data) IN
  IF ~dataInt16.ok THEN dataInt16
  ELSE LET frameCount == Quotient(Len(dataInt16.val), numChannels)
           buffer == createBuffer(numChannels, frameCount, sampleRate)
       IN  IF ~buffer.ok THEN buffer
           ELSE Return(FillBuffer(buffer.val, dataInt16.val, frameCount, numChannels, 0))

(***************************************************************************)
(* synthesizeSpeech (src/services/geminiService.ts).  Its argument is what *)
(* ai.models.generateContent settles with:                                 *)
(*   [kind |-> "rejected", isError, message]  a thrown value, an Error or  *)
(*                                            not, with its message;       *)
(*   [kind |-> "fulfilled", data]             a response, data being       *)
(*     response.candidates?.[0]?.content?.parts?.[0]?.inlineData?.data,    *)
(*     None when any link of the chain is missing.                         *)
(***************************************************************************)
Rejected(isError, message) ==
  [kind |-> "rejected", isError |-> isError, message |-> message, data |-> None]

Fulfilled(data) ==
  [kind |-> "fulfilled", isError |-> FALSE, message |-> << >>, data |-> data]

SynthesisPrefix == << "Failed to synthesize speech: " >>

\* a catch block that rethrows what it caught
RethrowBare(isError, message) == Throw("Error", message)

\* the catch block: an Error is rethrown with the prefix, anything else is replaced
Rethrow(isError, message) ==
  IF isError THEN Throw("Error", SynthesisPrefix \o message)
  ELSE Throw("Error", << "An unknown error occurred during speech synthesis." >>)

\* !base64Audio: undefined and the empty string are both falsy
IsFalsy(data) == data = None \/ Len(data[1]) = 0

synthesizeSpeech(settled) ==
  IF settled.kind = "rejected" THEN Rethrow(settled.isError, settled.message)
  ELSE IF IsFalsy(settled.data)
    THEN Rethrow(TRUE, << "API did not return audio data." >>)
    ELSE Return(settled.data[1])

(***************************************************************************)
(* The App component: its state, its refs and the sound sources it made.   *)
(***************************************************************************)
VARIABLES
  isLoading,        \* useState(false)
  isPlaying,        \* useState(false)
  error,            \* useState<string | null>(null): None or Some(message)
  audioContextRef,  \* useRef(null): 0 or the id of the AudioContext
  audioSourceRef,   \* useRef(null): 0 or the index in sources of the referenced node
  sources,          \* every AudioBufferSourceNode created, in order of creation:
                    \*   state "playing" (started, rendering its buffer),
                    \*         "stopped" (stop() was called while it played),
                    \*         "finished" (it reached the end of its buffer);
                    \*   endedQueued: its ended event is queued and not yet dispatched
  inflight,         \* calls of synthesizeSpeech awaited by handleSynthesizeAndPlay
  calls,            \* history: calls of synthesizeSpeech issued so far
  contexts,         \* history: AudioContexts constructed so far
  last,             \* history: the handler that ran last and how it ended
  tpc, tSamples, tChannels, tBytes, tBase64, tDecoded, tBuffer,  \* transcoder harness
  textToSpeak,      \* useState(<the greeting>): the text, a string
  rate,             \* useState(0.7): the number the rate slider was parsed to
  pitch,            \* useState(-3): an integer
  ssml              \* useState(''): the document the effect of lines 104-109 builds

cvars == << isLoading, isPlaying, error, audioContextRef, audioSourceRef, sources,
            inflight, calls, contexts, last >>

tvars == << tpc, tSamples, tChannels, tBytes, tBase64, tDecoded, tBuffer >>

svars == << textToSpeak, rate, pitch, ssml >>

vars == << cvars, tvars, svars >>

SampleRate == 24000

NumChannels == 1

\* the requests a run may issue
MaxRequests == 3

\* what the upstream may return as inline data: "", "AEAAwA==" (the samples 16384
\* and -16384), "AEAA" (three bytes), "AE!A" (no base64), " " (no bytes at all)
Payloads ==
  { << >>,
    << "A", "E", "A", "A", "w", "A", "=", "=" >>,
    << "A", "E", "A", "A" >>,
    << "A", "E", "!", "A" >>,
    << " " >> }

UpstreamOutcomes ==
  { Rejected(TRUE, << "fetch failed" >>), Rejected(FALSE, << >>), Fulfilled(None) }
    \cup { Fulfilled(Some(p)) : p \in Payloads }

NoOutcome == Fulfilled(None)

\* history record: the handler that ran (op), the name of the exception it caught,
\* the outcome of generateContent it handled, and the number of source nodes that
\* existed when it began
Event(op, name, settled, nodes) ==
  [op |-> op, name |-> name, settled |-> settled, nodes |-> nodes]

Quiet(op) == Event(op, "", NoOutcome, Len(sources))

(***************************************************************************)
(* The prosody controls and the effect that builds the SSML document.      *)
(***************************************************************************)
\* the rate slider: min={0.25} max={1.5} step={0.05}, here in hundredths
RateMin == 25

RateMax == 150

RateStep == 5

\* the pitch slider: min={-20} max={20} step={1}
PitchMin == -20

PitchMax == 20

RateValues == { Quotient(k, 100) : k \in { j \in RateMin..RateMax : (j - RateMin) % RateStep = 0 } }

PitchValues == PitchMin..PitchMax

\* the text of line 91 (a greeting in Thai) stands as one piece
DefaultText == << "(greeting)" >>

Texts == { DefaultText, << "Hello" >>, << >> }

\* rate * 100 in double arithmetic: the exact product plus a rounding error of
\* err / ErrorScale, far below one half
ErrorScale == 1000

RoundingErrors == { -1, 0, 1 }

Times100(q, err) == Quotient(100 * q.num * ErrorScale + err * q.den, q.den * ErrorScale)

\* truncation toward minus infinity instead of rounding
MathFloor(q) == q.num \div q.den

\* Math.round: the integer nearest to q, a half going up
MathRound(q) == (2 * q.num + q.den) \div (2 * q.den)

DigitChars == << "0", "1", "2", "3", "4", "5", "6", "7", "8", "9" >>

RECURSIVE Digits(_)
Digits(n) ==
  IF n < 10 THEN << DigitChars[n + 1] >>
  ELSE Digits(n \div 10) \o << DigitChars[(n % 10) + 1] >>

\* `${n}` for an integer n
NumberToString(n) == IF n < 0 THEN << "-" >> \o Digits(-n) ELSE Digits(n)

\* the effect of lines 104-109
BuildSsml(text, r, p, err) ==
  LET prosodyRate == NumberToString(MathRound(Times100(r, err))) \o << "%" >>
      prosodyPitch == NumberToString(p) \o << "st" >>
  IN  << "<speak><prosody rate=\"" >> \o prosodyRate \o << "\" pitch=\"" >>
        \o prosodyPitch \o << "\">" >> \o text \o << "</prosody></speak>" >>

\* the component as mounted: the defaults, and the effect run once
Mounted ==
  /\ textToSpeak = DefaultText
  /\ rate = Quotient(70, 100)
  /\ pitch = -3
  /\ \E err \in RoundingErrors : ssml = BuildSsml(textToSpeak, rate, pitch, err)

NoTranscoding ==
  /\ tpc = "off"
  /\ tSamples = << >>
  /\ tChannels = 1
  /\ tBytes = << >>
  /\ tBase64 = << >>
  /\ tDecoded = Return(<< >>)
  /\ tBuffer = Return(<< >>)

Init ==
  /\ isLoading = FALSE
  /\ isPlaying = FALSE
  /\ error = None
  /\ audioContextRef = 0
  /\ audioSourceRef = 0
  /\ sources = << >>
  /\ inflight = 0
  /\ calls = 0
  /\ contexts = 0
  /\ last = Event("init", "", NoOutcome, 0)
  /\ NoTranscoding
  /\ Mounted

\* source.stop(): a playing node stops and its ended event is queued; a node that
\* already finished is left as it is
StopNode(nodes, s) ==
  IF nodes[s].state = "playing"
    THEN [nodes EXCEPT ![s] = [state |-> "stopped", endedQueued |-> TRUE]]
    ELSE nodes

\* stopPlayback without audioSourceRef.current = null
StopEffectKeepsRef(ref, playing, nodes) ==
  IF ref # 0 THEN << ref, FALSE, StopNode(nodes, ref) >>
  ELSE << ref, playing, nodes >>

\* the body of stopPlayback, as the new values of <<audioSourceRef, isPlaying, sources>>
StopEffect(ref, playing, nodes) ==
  IF ref # 0 THEN << 0, FALSE, StopNode(nodes, ref) >>
  ELSE << ref, playing, nodes >>

\* a stopPlayback that also gives up the request in flight
StopPlaybackCancels ==
  /\ LET e == StopEffect(audioSourceRef, isPlaying, sources) IN
       /\ audioSourceRef' = e[1]
       /\ isPlaying' = e[2]
       /\ sources' = e[3]
  /\ last' = Quiet("stop")
  /\ inflight' = 0
  /\ isLoading' = FALSE
  /\ UNCHANGED << error, audioContextRef, calls, contexts, tvars, svars >>

StopPlayback ==
  /\ LET e == StopEffect(audioSourceRef, isPlaying, sources) IN
       /\ audioSourceRef' = e[1]
       /\ isPlaying' = e[2]
       /\ sources' = e[3]
  /\ last' = Quiet("stop")
  /\ UNCHANGED << isLoading, error, audioContextRef, inflight, calls, contexts, tvars, svars >>

\* handleSynthesizeAndPlay without its first line
BusyNever(loading) == FALSE

\* if (isLoading) return;
Busy(loading) == loading

\* handleSynthesizeAndPlay without setError(null)
HandleSynthesizeAndPlayKeepsError ==
  IF Busy(isLoading)
    THEN /\ last' = Quiet("rejected")
         /\ UNCHANGED << isLoading, isPlaying, error, audioContextRef, audioSourceRef,
                         sources, inflight, calls, contexts, tvars, svars >>
    ELSE /\ calls < MaxRequests
         /\ LET e == StopEffect(audioSourceRef, isPlaying, sources) IN
              /\ audioSourceRef' = e[1]
              /\ isPlaying' = e[2]
              /\ sources' = e[3]
         /\ isLoading' = TRUE
         /\ inflight' = inflight + 1
         /\ calls' = calls + 1
         /\ last' = Quiet("accepted")
         /\ UNCHANGED << error, audioContextRef, contexts, tvars, svars >>

\* handleSynthesizeAndPlay up to its first await.  The button (lines 236-238) calls
\* stopPlayback when isPlaying and handleSynthesizeAndPlay otherwise, and is disabled
\* while isLoading; here either handler may be called in any state, which reaches
\* the same states of the program, since a call the button would not make either
\* changes nothing or equals a stop followed by a request.
HandleSynthesizeAndPlay ==
  IF Busy(isLoading)
    THEN /\ last' = Quiet("rejected")
         /\ UNCHANGED << isLoading, isPlaying, error, audioContextRef, audioSourceRef,
                         sources, inflight, calls, contexts, tvars, svars >>
    ELSE /\ calls < MaxRequests
         /\ LET e == StopEffect(audioSourceRef, isPlaying, sources) IN
              /\ audioSourceRef' = e[1]
              /\ isPlaying' = e[2]
              /\ sources' = e[3]
         /\ isLoading' = TRUE
         /\ error' = None
         /\ inflight' = inflight + 1
         /\ calls' = calls + 1
         /\ last' = Quiet("accepted")
         /\ UNCHANGED << audioContextRef, contexts, tvars, svars >>

\* err.message || 'An unexpected error occurred.'
ErrorText(message) ==
  IF Len(message) > 0 THEN message ELSE << "An unexpected error occurred." >>

\* the catch block without the finally block
FailNoFinally(thrown, settled, ctx, made) ==
  /\ error' = Some(ErrorText(thrown.message))
  /\ isPlaying' = FALSE
  /\ isLoading' = isLoading
  /\ audioContextRef' = ctx
  /\ contexts' = made
  /\ last' = Event("failed", thrown.name, settled, Len(sources))
  /\ UNCHANGED << audioSourceRef, sources >>

\* catch (err) { setError(...); setIsPlaying(false); } finally { setIsLoading(false); }
Fail(thrown, settled, ctx, made) ==
  /\ error' = Some(ErrorText(thrown.message))
  /\ isPlaying' = FALSE
  /\ isLoading' = FALSE
  /\ audioContextRef' = ctx
  /\ contexts' = made
  /\ last' = Event("failed", thrown.name, settled, Len(sources))
  /\ UNCHANGED << audioSourceRef, sources >>

\* a new AudioContext for every request
EnsureContextAlways(ref, made) == << made + 1, made + 1 >>

\* if (!audioContextRef.current) audioContextRef.current = new AudioContext(...):
\* the new values of << audioContextRef, contexts >>
EnsureContext(ref, made) ==
  IF ref = 0 THEN << made + 1, made + 1 >> ELSE << ref, made >>

\* handleSynthesizeAndPlay from the settling of synthesizeSpeech to its end; the
\* await of decodeAudioData resumes in a microtask, before any other event
SynthesisSettled(settled) ==
  /\ inflight > 0
  /\ inflight' = inflight - 1
  /\ UNCHANGED << calls, tvars, svars >>
  /\ LET base64Audio == synthesizeSpeech(settled) IN
     IF ~base64Audio.ok THEN Fail(base64Audio, settled, audioContextRef, contexts)
     ELSE
       LET ctx == EnsureContext(audioContextRef, contexts)[1]
           made == EnsureContext(audioContextRef, contexts)[2]
           bytes == decode(base64Audio.val)
       IN
       IF ~bytes.ok THEN Fail(bytes, settled, ctx, made)
       ELSE
         LET audioBuffer == decodeAudioData(bytes.val, SampleRate, NumChannels) IN
         IF ~audioBuffer.ok THEN Fail(audioBuffer, settled, ctx, made)
         ELSE
           /\ sources' = Append(sources, [state |-> "playing", endedQueued |-> FALSE])
           /\ audioSourceRef' = Len(sources) + 1
           /\ isPlaying' = TRUE
           /\ isLoading' = FALSE
           /\ audioContextRef' = ctx
           /\ contexts' = made
           /\ last' = Event("started", "", settled, Len(sources))
           /\ UNCHANGED error

\* the audio thread reaches the end of the buffer of a playing node
PlaybackFinishes(s) ==
  /\ sources[s].state = "playing"
  /\ sources' = [sources EXCEPT ![s] = [state |-> "finished", endedQueued |-> TRUE]]
  /\ UNCHANGED << isLoading, isPlaying, error, audioContextRef, audioSourceRef,
                  inflight, calls, contexts, last, tvars, svars >>

\* source.onended = () => { setIsPlaying(false); audioSourceRef.current = null; }
\* The ended event of a node is dispatched as a task of its own, some time after the
\* node stopped playing, whether it was stopped by stop() or reached the end of its
\* buffer; the handler does not look at which node ended.
OnEnded(s) ==
  /\ sources[s].endedQueued
  /\ sources' = [sources EXCEPT ![s].endedQueued = FALSE]
  /\ isPlaying' = FALSE
  /\ audioSourceRef' = 0
  /\ last' = Quiet("ended")
  /\ UNCHANGED << isLoading, error, audioContextRef, inflight, calls, contexts, tvars, svars >>

Next ==
  \/ HandleSynthesizeAndPlay
  \/ StopPlayback
  \/ \E settled \in UpstreamOutcomes : SynthesisSettled(settled)
  \/ \E s \in 1..Len(sources) : PlaybackFinishes(s)
  \/ \E s \in 1..Len(sources) : OnEnded(s)

Spec == Init /\ [][Next]_vars

\* the upstream call always settles: every awaited call of synthesizeSpeech is
\* eventually resumed with its result or its failure
SpecFair ==
  Spec /\ WF_vars(\E settled \in UpstreamOutcomes : SynthesisSettled(settled))

(***************************************************************************)
(* The transcoder on its own: decode and decodeAudioData applied to the    *)
(* base64 text of a byte sequence.  The byte sequence is the 16-bit        *)
(* little-endian PCM of tSamples, followed by one more byte when the       *)
(* sequence is to hold a torn sample.                                      *)
(***************************************************************************)
\* the values a sample may take
SampleValues == { -32768, -16384, -1, 0, 1, 16384, 32767 }

\* the longest sample sequence, and the largest channel count
MaxSamples == 3

MaxChannels == 2

RECURSIVE SeqsUpTo(_, _)
SeqsUpTo(S, n) ==
  IF n = 0 THEN { << >> }
  ELSE LET shorter == SeqsUpTo(S, n - 1) IN
       shorter \cup { Append(q, x) : q \in { r \in shorter : Len(r) = n - 1 }, x \in S }

\* the two bytes of a sample, low byte first (two's complement)
RECURSIVE EncodePCM16(_)
EncodePCM16(samples) ==
  IF Len(samples) = 0 THEN << >>
  ELSE LET u == (Head(samples) + 65536) % 65536 IN
       << u % 256, u \div 256 >> \o EncodePCM16(Tail(samples))

\* btoa: standard base64 with "=" padding
RECURSIVE btoa(_)
btoa(bytes) ==
  LET n == Len(bytes)
      ch(v) == Alphabet[v + 1]
  IN  IF n = 0 THEN << >>
      ELSE IF n = 1 THEN
        << ch(bytes[1] \div 4), ch((bytes[1] % 4) * 16), "=", "=" >>
      ELSE IF n = 2 THEN
        << ch(bytes[1] \div 4), ch((bytes[1] % 4) * 16 + (bytes[2] \div 16)),
           ch((bytes[2] % 16) * 4), "=" >>
      ELSE
        << ch(bytes[1] \div 4), ch((bytes[1] % 4) * 16 + (bytes[2] \div 16)),
           ch((bytes[2] % 16) * 4 + (bytes[3] \div 64)), ch(bytes[3] % 64) >>
          \o btoa(SubSeq(bytes, 4, n))

InitT ==
  /\ isLoading = FALSE
  /\ isPlaying = FALSE
  /\ error = None
  /\ audioContextRef = 0
  /\ audioSourceRef = 0
  /\ sources = << >>
  /\ inflight = 0
  /\ calls = 0
  /\ contexts = 0
  /\ last = Event("init", "", NoOutcome, 0)
  /\ tpc = "encoded"
  /\ tSamples \in SeqsUpTo(SampleValues, MaxSamples)
  /\ tChannels \in 1..MaxChannels
  /\ \E extra \in { << >>, << 7 >> } : tBytes = EncodePCM16(tSamples) \o extra
  /\ tBase64 = btoa(tBytes)
  /\ tDecoded = Return(<< >>)
  /\ tBuffer = Return(<< >>)
  /\ Mounted

TDecode ==
  /\ tpc = "encoded"
  /\ tDecoded' = decode(tBase64)
  /\ tpc' = "decoded"
  /\ UNCHANGED << cvars, svars, tSamples, tChannels, tBytes, tBase64, tBuffer >>

TDecodeAudioData ==
  /\ tpc = "decoded"
  /\ tDecoded.ok
  /\ tBuffer' = decodeAudioData(tDecoded.val, SampleRate, tChannels)
  /\ tpc' = "done"
  /\ UNCHANGED << cvars, svars, tSamples, tChannels, tBytes, tBase64, tDecoded >>

NextT == TDecode \/ TDecodeAudioData

SpecT == InitT /\ [][NextT]_vars

(***************************************************************************)
(* The prosody controls on their own: each change of the text, the rate or *)
(* the pitch re-renders and runs the effect.                               *)
(***************************************************************************)
InitS ==
  /\ isLoading = FALSE
  /\ isPlaying = FALSE
  /\ error = None
  /\ audioContextRef = 0
  /\ audioSourceRef = 0
  /\ sources = << >>
  /\ inflight = 0
  /\ calls = 0
  /\ contexts = 0
  /\ last = Event("init", "", NoOutcome, 0)
  /\ NoTranscoding
  /\ Mounted

\* onChange={(e) => setTextToSpeak(e.target.value)}
SetTextToSpeak(text) ==
  /\ textToSpeak' = text
  /\ \E err \in RoundingErrors : ssml' = BuildSsml(text, rate, pitch, err)
  /\ UNCHANGED << cvars, tvars, rate, pitch >>

\* onChange={(e) => setRate(parseFloat(e.target.value))}
SetRate(r) ==
  /\ rate' = r
  /\ \E err \in RoundingErrors : ssml' = BuildSsml(textToSpeak, r, pitch, err)
  /\ UNCHANGED << cvars, tvars, textToSpeak, pitch >>

\* onChange={(e) => setPitch(parseInt(e.target.value, 10))}
SetPitch(p) ==
  /\ pitch' = p
  /\ \E err \in RoundingErrors : ssml' = BuildSsml(textToSpeak, rate, p, err)
  /\ UNCHANGED << cvars, tvars, textToSpeak, rate >>

NextS ==
  \/ \E text \in Texts : SetTextToSpeak(text)
  \/ \E r \in RateValues : SetRate(r)
  \/ \E p \in PitchValues : SetPitch(p)

SpecS == InitS /\ [][NextS]_vars

(***************************************************************************)
(* Properties.                                                             *)
(***************************************************************************)
\* the program's own state, without the history record
pvars == << isLoading, isPlaying, error, audioContextRef, audioSourceRef, sources,
            inflight, calls, contexts >>

\* the source nodes that are started and neither stopped nor finished
Playing == { s \in 1..Len(sources) : sources[s].state = "playing" }

\* the last handler was the continuation of a request, which handled `settled`
Handled == last.op \in { "started", "failed" }

\* the bytes an inline-data string decodes to, if it decodes
PayloadBytes(settled) == decode(settled.data[1])

\* C1: at most one source node is started and not yet stopped or finished, and
\* when a new node has just been started every earlier node is stopped or finished.
C1_MutualExclusion ==
  /\ Cardinality(Playing) <= 1
  /\ last.op = "started" => \A s \in 1..(Len(sources) - 1) : s \notin Playing

\* C2: when isPlaying is false audioSourceRef is null, and every node that is still
\* playing is the one audioSourceRef refers to.
C2_NoDanglingSession ==
  /\ ~isPlaying => audioSourceRef = 0
  /\ \A s \in Playing : audioSourceRef = s

\* C3: at most one call of synthesizeSpeech is outstanding, and a call of
\* handleSynthesizeAndPlay made while isLoading changes nothing of the program's state.
C3_SingleInFlight ==
  /\ [](inflight <= 1)
  /\ [][(isLoading /\ HandleSynthesizeAndPlay) => UNCHANGED pvars]_vars

C3_Witness == last.op = "rejected" /\ isLoading /\ inflight = 1

\* C4: a request that failed, at whatever stage, leaves isPlaying false, the session
\* reference null, no new source node, a non-empty error message, isLoading false and
\* no call outstanding; the next call of handleSynthesizeAndPlay is accepted; and
\* synthesizeSpeech is called only by an accepted call of handleSynthesizeAndPlay.
C4_FailureRecovery ==
  /\ [](last.op = "failed" =>
          /\ ~isPlaying
          /\ audioSourceRef = 0
          /\ Len(sources) = last.nodes
          /\ error # None
          /\ Len(error[1]) > 0
          /\ ~isLoading
          /\ inflight = 0
          /\ calls < MaxRequests => ENABLED (HandleSynthesizeAndPlay /\ last'.op = "accepted"))
  /\ [][calls' # calls => (HandleSynthesizeAndPlay /\ last'.op = "accepted")]_vars

C4_Witness ==
  /\ last.op = "failed"
  /\ last.name = "InvalidCharacterError"
  /\ error = Some(<< "The string to be decoded is not correctly encoded." >>)
  /\ calls = 2

\* C5: stopPlayback always ends with isPlaying false and the session reference null;
\* called when isPlaying is false, or right after another stopPlayback, it changes
\* nothing of the program's state.
C5_StopIdempotent ==
  [][StopPlayback =>
       /\ ~isPlaying'
       /\ audioSourceRef' = 0
       /\ UNCHANGED << isLoading, error, audioContextRef, inflight, calls, contexts >>
       /\ (~isPlaying \/ last.op = "stop") => UNCHANGED pvars]_vars

C5_Witness ==
  /\ last.op = "stop"
  /\ ~isPlaying
  /\ audioSourceRef = 0
  /\ \E s \in 1..Len(sources) : sources[s].state = "stopped"

\* C6: a request whose upstream result is a payload of zero bytes ends without an
\* error, with a session started.
C6_EmptyPayloadNoError ==
  (/\ Handled
   /\ last.settled.data # None
   /\ PayloadBytes(last.settled).ok
   /\ Len(PayloadBytes(last.settled).val) = 0)
  => (last.op = "started" /\ error = None)

\* C7: for N samples and C channels decodeAudioData returns a buffer of exactly C
\* channel arrays, each of length floor(N / C).
C7_ChannelLengths ==
  (tpc = "done" /\ Len(tBytes) % 2 = 0)
  => /\ tBuffer.ok
     /\ Len(tBuffer.val.channels) = tChannels
     /\ \A c \in 1..tChannels :
          Len(tBuffer.val.channels[c]) = (Len(tBytes) \div 2) \div tChannels

C9_OddLengthFails ==
  (/\ Handled
   /\ ~IsFalsy(last.settled.data)
   /\ PayloadBytes(last.settled).ok
   /\ Len(PayloadBytes(last.settled).val) % 2 = 1)
  => /\ last.op = "failed"
     /\ last.name = "RangeError"
     /\ Len(sources) = last.nodes
     /\ ~isPlaying
     /\ audioSourceRef = 0
     /\ ~isLoading
     /\ error = Some(<< "byte length of Int16Array should be a multiple of 2" >>)

C9_Witness ==
  /\ last.op = "failed"
  /\ last.name = "RangeError"
  /\ last.settled = Fulfilled(Some(<< "A", "E", "A", "A" >>))
  /\ audioContextRef # 0

\* C10: samples encoded as 16-bit little-endian PCM and then as base64 come back
\* from decode and decodeAudioData, with one channel, each exactly as sample / 32768.
C10_RoundTrip ==
  (tpc = "done" /\ tChannels = 1 /\ tBytes = EncodePCM16(tSamples)) =>
    \A i \in 1..Len(tSamples) :
      /\ tBuffer.ok
      /\ tBuffer.val.length = Len(tSamples)
      /\ LET x == tBuffer.val.channels[1][i] IN
           x[2] > 0 /\ x[1] * 32768 = tSamples[i] * x[2]

C10_Witness ==
  /\ tpc = "done"
  /\ tChannels = 1
  /\ tSamples = << -32768, 32767, -1 >>
  /\ tBase64 = << "A", "I", "D", "/", "f", "/", "/", "/" >>
  /\ tBuffer.ok
  /\ tBuffer.val.channels[1] = << << -1, 1 >>, << 32767, 32768 >>, << -1, 32768 >> >>

\* C11 as stated: the AudioContext is constructed at most once, only by a request
\* that goes on to start a session, and the reference never changes once set.
C11_CreatedOnPlayback ==
  /\ [](contexts <= 1)
  /\ [](audioContextRef # 0 => Len(sources) >= 1)
  /\ [][audioContextRef # 0 => audioContextRef' = audioContextRef]_vars

\* C11 amended: the AudioContext is constructed at most once, by the first request
\* whose call of synthesizeSpeech succeeds, before the payload is decoded, so also
\* when that request then fails; the reference never changes once set.
C11_LazyContext ==
  /\ [](contexts <= 1 /\ audioContextRef = contexts)
  /\ []((Handled /\ synthesizeSpeech(last.settled).ok) => audioContextRef # 0)
  /\ [][audioContextRef # 0 => audioContextRef' = audioContextRef]_vars
  /\ [][audioContextRef' # audioContextRef =>
          /\ audioContextRef = 0
          /\ last'.op \in { "started", "failed" }
          /\ synthesizeSpeech(last'.settled).ok]_vars

C11_Witness ==
  /\ audioContextRef = 1
  /\ contexts = 1
  /\ calls = 3
  /\ last.op = "started"
  /\ Len(sources) = 2

\* the characters of a decimal numeral, with or without a sign
IsDigits(chars) ==
  Len(chars) > 0 /\ \A k \in 1..Len(chars) : \E d \in 1..10 : DigitChars[d] = chars[k]

IsNumeral(chars) ==
  IF Len(chars) > 0 /\ chars[1] = "-" THEN IsDigits(Tail(chars)) ELSE IsDigits(chars)

RECURSIVE DigitsValue(_)
DigitsValue(chars) ==
  IF Len(chars) = 0 THEN 0
  ELSE 10 * DigitsValue(SubSeq(chars, 1, Len(chars) - 1))
         + (CHOOSE d \in 0..9 : DigitChars[d + 1] = chars[Len(chars)])

NumeralValue(chars) ==
  IF chars[1] = "-" THEN 0 - DigitsValue(Tail(chars)) ELSE DigitsValue(chars)

\* C12: ssml is <speak><prosody rate="R%" pitch="Pst">text</prosody></speak>, R a
\* numeral for the integer nearest to rate * 100 and P a numeral for pitch; rate 0.7,
\* pitch -3 and text Hello give rate="70%" pitch="-3st".
C12_Ssml ==
  /\ \E lr \in 1..3 : \E lp \in 1..3 :
       LET R == SubSeq(ssml, 2, 1 + lr)
           P == SubSeq(ssml, 4 + lr, 3 + lr + lp)
       IN  /\ ssml = << "<speak><prosody rate=\"" >> \o R \o << "%", "\" pitch=\"" >>
                       \o P \o << "st", "\">" >> \o textToSpeak \o << "</prosody></speak>" >>
           /\ IsDigits(R)
           /\ LET d == 100 * rate.num - NumeralValue(R) * rate.den IN
                2 * d <= rate.den /\ 2 * (0 - d) <= rate.den
           /\ IsNumeral(P)
           /\ NumeralValue(P) = pitch
  /\ (textToSpeak = << "Hello" >> /\ rate = Quotient(70, 100) /\ pitch = -3) =>
       ssml = << "<speak><prosody rate=\"", "7", "0", "%", "\" pitch=\"", "-", "3", "st",
                 "\">", "Hello", "</prosody></speak>" >>

C12_Witness ==
  /\ textToSpeak = << "Hello" >>
  /\ rate = Quotient(70, 100)
  /\ pitch = -3
  /\ ssml[2] = "7"
  /\ ssml[6] = "-"

\* C13: the ended callback of the referenced node, once it finished its buffer,
\* leaves isPlaying false and the reference null; and a callback that changes
\* isPlaying or the reference is that of the referenced node, which finished its
\* buffer without being stopped.
C13_NaturalCompletion ==
  [][\A s \in 1..Len(sources) :
       OnEnded(s) =>
         /\ ~isPlaying' /\ audioSourceRef' = 0
         /\ (isPlaying' # isPlaying \/ audioSourceRef' # audioSourceRef) =>
              (sources[s].state = "finished" /\ audioSourceRef = s)]_vars

\* a request whose payload passes synthesizeSpeech, decode and decodeAudioData
Succeeds(settled) ==
  /\ synthesizeSpeech(settled).ok
  /\ decode(synthesizeSpeech(settled).val).ok
  /\ decodeAudioData(decode(synthesizeSpeech(settled).val).val, SampleRate, NumChannels).ok

\* C14: a stopPlayback made while a call of synthesizeSpeech is outstanding changes
\* at most the referenced source node and leaves the call outstanding and isLoading
\* set; a request whose payload is good ends by appending a playing node, referring
\* to it and setting isPlaying, whatever happened while it was outstanding.
C14_NoCancellation ==
  /\ [][(StopPlayback /\ inflight > 0) =>
          /\ UNCHANGED << inflight, isLoading, calls, error, audioContextRef >>
          /\ Len(sources') = Len(sources)
          /\ \A s \in 1..Len(sources) : s # audioSourceRef => sources'[s] = sources[s]]_vars
  /\ [][(last'.op \in { "started", "failed" } /\ inflight' < inflight /\ Succeeds(last'.settled)) =>
          /\ last'.op = "started"
          /\ sources' = Append(sources, [state |-> "playing", endedQueued |-> FALSE])
          /\ audioSourceRef' = Len(sources')
          /\ isPlaying']_vars
  /\ [](inflight > 0 => isLoading)

C14_Witness == last.op = "stop" /\ isLoading /\ inflight = 1 /\ calls = 2

\* C15: every element of a buffer decodeAudioData returns is at least -1 and less
\* than 1.
C15_UnitRange ==
  (tpc = "done" /\ tBuffer.ok) =>
    \A c \in 1..tChannels : \A i \in 1..tBuffer.val.length :
      LET x == tBuffer.val.channels[c][i] IN
        x[2] > 0 /\ 0 - x[2] <= x[1] /\ x[1] < x[2]

C15_Witness ==
  /\ tpc = "done"
  /\ tBuffer.ok
  /\ tChannels = 1
  /\ tSamples = << -32768, 32767 >>
  /\ tBuffer.val.channels[1] = << << -1, 1 >>, << 32767, 32768 >> >>

\* the message begins with "Failed to synthesize speech: "
HasSynthesisPrefix(message) == Len(message) >= 1 /\ message[1] = SynthesisPrefix[1]

\* C16 as stated: the error of a failed request carries the synthesis prefix exactly
\* when synthesizeSpeech was the stage that failed.
C16_PrefixIffUpstream ==
  last.op = "failed" =>
    (HasSynthesisPrefix(error[1]) <=> ~synthesizeSpeech(last.settled).ok)

\* C16 amended: a failure of synthesizeSpeech carries the prefix when what the
\* upstream threw is an Error or the response lacks audio data; when it threw
\* something that is no Error the message is "An unknown error occurred during
\* speech synthesis.", without the prefix; failures of decode and decodeAudioData
\* never carry the prefix.
C16_PrefixOfErrors ==
  last.op = "failed" =>
    IF synthesizeSpeech(last.settled).ok THEN ~HasSynthesisPrefix(error[1])
    ELSE IF last.settled.kind = "rejected" /\ ~last.settled.isError
      THEN error = Some(<< "An unknown error occurred during speech synthesis." >>)
      ELSE /\ HasSynthesisPrefix(error[1])
           /\ Len(error[1]) = 1 + Len(IF last.settled.kind = "rejected"
                                        THEN last.settled.message
                                        ELSE << "API did not return audio data." >>)

C16_Witness ==
  /\ last.op = "failed"
  /\ last.settled = Fulfilled(None)
  /\ error = Some(<< "Failed to synthesize speech: ", "API did not return audio data." >>)

\* C17: isPlaying is true exactly when audioSourceRef is non-null, and then the
\* referenced node was not stopped and no other node is playing.
C17_FlagAgreesWithRef ==
  /\ isPlaying <=> audioSourceRef # 0
  /\ audioSourceRef # 0 =>
       /\ sources[audioSourceRef].state # "stopped"
       /\ \A s \in Playing : s = audioSourceRef

\* C18: the ended event of a node other than the referenced one leaves the
\* reference and isPlaying as they are.
C18_StaleEndedHarmless ==
  [][\A s \in 1..Len(sources) :
       (OnEnded(s) /\ audioSourceRef # 0 /\ audioSourceRef # s) =>
         (audioSourceRef' = audioSourceRef /\ isPlaying' = isPlaying)]_vars

\* C19: isLoading is true exactly while a call of synthesizeSpeech is outstanding;
\* when it is false a request is accepted; and, the upstream call always settling,
\* isLoading always becomes false again.
C19_LoadingLifecycle ==
  /\ [](isLoading <=> inflight > 0)
  /\ []((~isLoading /\ calls < MaxRequests) =>
          ENABLED (HandleSynthesizeAndPlay /\ last'.op = "accepted"))
  /\ (isLoading ~> ~isLoading)

C19_Witness ==
  /\ ~isLoading
  /\ inflight = 0
  /\ calls = 2
  /\ last.op = "started"
  /\ error = None

\* C20: an accepted request clears the error; the error becomes non-null only when
\* a request fails; a request that starts a session leaves it null; stopPlayback and
\* the ended callback leave error, isLoading and the AudioContext unchanged.
C20_ErrorFrame ==
  /\ [][(last'.op = "accepted" /\ inflight' > inflight) => error' = None]_vars
  /\ [][error' # error =>
          \/ last'.op = "accepted" /\ error' = None
          \/ last'.op = "failed" /\ error' # None]_vars
  /\ [][(last'.op = "started" /\ inflight' < inflight) => error' = None]_vars
  /\ [][(StopPlayback \/ \E s \in 1..Len(sources) : OnEnded(s)) =>
          UNCHANGED << error, isLoading, audioContextRef, contexts >>]_vars

C20_Witness ==
  /\ last.op = "ended"
  /\ error # None
  /\ ~isLoading
  /\ audioContextRef = 1

====
